---- MODULE Spec2Model ----
(***************************************************************************)
(* Model of scripts/score_applications.py: the event store written by the  *)
(* Pillar A functions, the metrics views (Pillar B), the state classifiers *)
(* (Pillar C) and the narrative / bundle assembly (Pillar D).              *)
(*                                                                         *)
(* Timestamps and the clock count half-days, so that the truncation of     *)
(* timedelta.days is visible: a span of 15 half-days is 7 whole days.      *)
(* Python's None is the empty sequence, an optional value v is <<v>>, and  *)
(* a ratio n/d is the pair <<n, d>> with d > 0.                            *)
(***************************************************************************)
EXTENDS Integers, Sequences, FiniteSets, TLC

VARIABLES
    now,                        \* the wall clock read by _utcnow / datetime.now
    applications,               \* table applications, in rowid order
    outreach_events,            \* table outreach_events, in rowid order
    response_events,            \* table response_events, in rowid order
    status_history,             \* table status_history, in rowid order
    application_customization,  \* table application_customization, a set of rows
    op,                         \* the last call made
    arg,                        \* its arguments
    ret,                        \* its return value
    view                        \* a running application_metrics_view: its position
                                \* and its local variables

vars == <<now, applications, outreach_events, response_events, status_history,
          application_customization, op, arg, ret, view>>

store == <<applications, outreach_events, response_events, status_history,
           application_customization>>

\* ------------------------------------------------------------------ bounds

MaxNow == 16
MaxApps == 2
MaxOutreach == 2
MaxResponses == 1

TickSteps == {15, 16}
Channels == {"email", "referral"}
OutreachTypes == {"initial", "follow_up"}
ResponseTypes == {"reply"}
AppIds == 1 .. MaxApps

\* bounds of the rows handed to the classifiers and to the bundle directly
MaxCount == 2
MaxDays == 9
MaxChannelCount == 10
MaxShortList == 2
MaxAppRows == 6
MaxChannelRows == 2

\* ------------------------------------------------------------------ values

None == <<>>

Some(v) == <<v>>

Ratio(n, d) == <<n, d>>

RatioLess(a, b) == a[1] * b[2] < b[1] * a[2]

RatioGeq(a, b) == a[1] * b[2] >= b[1] * a[2]

SetMax(S) == CHOOSE x \in S : \A y \in S : y <= x

SetMin(S) == CHOOSE x \in S : \A y \in S : x <= y

Count(seq, Test(_)) == Cardinality({i \in DOMAIN seq : Test(seq[i])})

Take(seq, n) == SubSeq(seq, 1, IF Len(seq) < n THEN Len(seq) ELSE n)

Get(row, key, default) == IF key \in DOMAIN row THEN row[key] ELSE default

\* (a - b).days for two timestamps a >= b counted in half-days
timedelta_days(a, b) == (a - b) \div 2

\* ------------------------------------------------------------------ thresholds

IDLE_DAYS_THRESHOLD == 7
MIN_CHANNEL_SAMPLE_SIZE == 5
STABLE_RESPONSE_COUNT_THRESHOLD == 3
HIGH_IDLE_RATE_THRESHOLD == Ratio(3, 10)
LOW_FOLLOW_UP_RATE_THRESHOLD == Ratio(1, 2)
CHANNEL_DEPENDENCY_THRESHOLD == Ratio(6, 10)
STABLE_CHANNEL_RATIO_THRESHOLD == Ratio(3, 10)
ACTIVITY_RATE_THRESHOLD == Ratio(1, 1)
INACTIVITY_RATE_THRESHOLD == Ratio(1, 2)

\* ------------------------------------------------------------------ Pillar B

\* the maximum without the response events
latest_timestamp_without_responses(application_id) ==
    LET ts == {applications[i].created_at : i \in
                   {j \in DOMAIN applications :
                        applications[j].application_id = application_id}}
              \cup {outreach_events[i].timestamp : i \in
                   {j \in DOMAIN outreach_events :
                        outreach_events[j].application_id = application_id}}
              \cup {status_history[i].timestamp : i \in
                   {j \in DOMAIN status_history :
                        status_history[j].application_id = application_id}}
    IN  IF ts = {} THEN None ELSE Some(SetMax(ts))

\* SELECT MAX(ts) over the application's creation time and all its events
latest_timestamp(application_id) ==
    LET ts == {applications[i].created_at : i \in
                   {j \in DOMAIN applications :
                        applications[j].application_id = application_id}}
              \cup {outreach_events[i].timestamp : i \in
                   {j \in DOMAIN outreach_events :
                        outreach_events[j].application_id = application_id}}
              \cup {response_events[i].timestamp : i \in
                   {j \in DOMAIN response_events :
                        response_events[j].application_id = application_id}}
              \cup {status_history[i].timestamp : i \in
                   {j \in DOMAIN status_history :
                        status_history[j].application_id = application_id}}
    IN  IF ts = {} THEN None ELSE Some(SetMax(ts))

days_since_last_action(application_id) ==
    LET ts == latest_timestamp(application_id)
    IN  IF ts = None THEN None ELSE Some(timedelta_days(now, ts[1]))

total_outreach_count(application_id) ==
    LET Mine(e) == e.application_id = application_id
    IN  Count(outreach_events, Mine)

follow_up_count(application_id) ==
    LET Mine(e) == e.application_id = application_id /\ e.outreach_type = "follow_up"
    IN  Count(outreach_events, Mine)

response_count(application_id) ==
    LET Mine(e) == e.application_id = application_id
    IN  Count(response_events, Mine)

status_change_count(application_id) ==
    LET Mine(e) == e.application_id = application_id
    IN  Count(status_history, Mine)

customization_flags(application_id) ==
    LET rows == {r \in application_customization : r.application_id = application_id}
    IN  IF rows = {}
        THEN [resume_customized |-> FALSE, cover_letter_customized |-> FALSE,
              any_customization |-> FALSE]
        ELSE LET row == CHOOSE r \in rows : TRUE
             IN  [resume_customized |-> row.resume_customized,
                  cover_letter_customized |-> row.cover_letter_customized,
                  any_customization |->
                      row.resume_customized \/ row.cover_letter_customized]

\* a single response does not count
has_response_above_one(application_id) == response_count(application_id) > 1

has_response(application_id) == response_count(application_id) > 0

total_action_count(application_id) ==
    total_outreach_count(application_id) + response_count(application_id)
        + status_change_count(application_id)

effort_score_raw(application_id) == total_action_count(application_id)

\* the default taken as "closed"
current_status_default_closed(application_id) ==
    LET mine == {i \in DOMAIN status_history :
                     status_history[i].application_id = application_id}
    IN  IF mine = {} THEN "closed"
        ELSE LET top == SetMax({status_history[i].timestamp : i \in mine})
             IN  status_history[SetMin({i \in mine : status_history[i].timestamp = top})].status

\* ORDER BY timestamp DESC LIMIT 1; among equal timestamps the first row in
\* rowid order stands for the row the query returns
current_status(application_id) ==
    LET mine == {i \in DOMAIN status_history :
                     status_history[i].application_id = application_id}
    IN  IF mine = {} THEN "open"
        ELSE LET top == SetMax({status_history[i].timestamp : i \in mine})
             IN  status_history[SetMin({i \in mine : status_history[i].timestamp = top})].status

application_metrics_fields(app_id) ==
    LET customization == customization_flags(app_id)
        days_idle == days_since_last_action(app_id)
        outreach_total == total_outreach_count(app_id)
        follow_ups == follow_up_count(app_id)
    IN  [application_id |-> app_id,
         current_status |-> current_status(app_id),
         days_since_last_action |-> days_idle,
         total_outreach_count |-> outreach_total,
         follow_up_count |-> follow_ups,
         has_follow_up |-> follow_ups > 0,
         responded_flag |-> has_response(app_id),
         total_action_count |-> total_action_count(app_id),
         effort_score_raw |-> effort_score_raw(app_id),
         has_zero_outreach |-> outreach_total = 0,
         has_no_follow_up |-> outreach_total > 0 /\ follow_ups = 0,
         is_idle_application |->
             days_idle # None /\ days_idle[1] > IDLE_DAYS_THRESHOLD,
         resume_customized |-> customization.resume_customized,
         cover_letter_customized |-> customization.cover_letter_customized,
         any_customization |-> customization.any_customization]

\* the row without the guard on the outreach count in has_no_follow_up
application_metrics_row_unguarded(app_id) ==
    [application_metrics_fields(app_id) EXCEPT
        !.has_no_follow_up = follow_up_count(app_id) = 0]

\* the row application_metrics_view appends for one application
application_metrics_row(app_id) == application_metrics_fields(app_id)

application_metrics_view ==
    [i \in DOMAIN applications |->
        application_metrics_row(applications[i].application_id)]

\* the elements of a finite set of integers in increasing order
RECURSIVE SortedSeq(_)
SortedSeq(S) == IF S = {} THEN <<>> ELSE <<SetMin(S)>> \o SortedSeq(S \ {SetMin(S)})

\* SELECT DISTINCT channel FROM outreach_events: each channel once, in the order
\* of its first row
distinct_channels ==
    LET first == {i \in DOMAIN outreach_events :
                     \A j \in 1 .. (i - 1) :
                         outreach_events[j].channel # outreach_events[i].channel}
        idx == SortedSeq(first)
    IN  [k \in DOMAIN idx |-> outreach_events[idx[k]].channel]

channel_metrics_row(channel) ==
    LET OnChannel(e) == e.channel = channel
        outreach_count == Count(outreach_events, OnChannel)
        app_coverage == Cardinality({outreach_events[i].application_id : i \in
                            {j \in DOMAIN outreach_events :
                                 outreach_events[j].channel = channel}})
        responses == Count(response_events, OnChannel)
    IN  [channel_name |-> channel,
         outreach_count_by_channel |-> outreach_count,
         application_coverage_by_channel |-> app_coverage,
         response_count_by_channel |-> responses,
         response_rate_by_channel |->
             IF app_coverage > 0 THEN Ratio(responses, app_coverage) ELSE None,
         is_low_sample_channel |-> outreach_count < MIN_CHANNEL_SAMPLE_SIZE]

channel_metrics_view ==
    [k \in DOMAIN distinct_channels |-> channel_metrics_row(distinct_channels[k])]

\* the weeks counted as whole weeks: days // 7 in place of (days + 6) // 7
portfolio_metrics_view_whole_weeks ==
    LET app_rows == application_metrics_view
        applications_total == Len(app_rows)
        HasFollowUp(r) == r.has_follow_up
        ZeroOutreach(r) == r.total_outreach_count = 0
        Idle(r) == r.is_idle_application
    IN  IF applications_total = 0
        THEN [applications_total |-> 0,
              applications_per_week |-> None,
              follow_up_rate |-> None,
              zero_outreach_rate |-> None,
              idle_application_rate |-> None,
              high_idle_portfolio |-> None,
              low_follow_up_portfolio |-> None]
        ELSE LET follow_up_rate == Ratio(Count(app_rows, HasFollowUp), applications_total)
                 zero_outreach_rate == Ratio(Count(app_rows, ZeroOutreach), applications_total)
                 idle_application_rate == Ratio(Count(app_rows, Idle), applications_total)
                 created == {applications[i].created_at : i \in DOMAIN applications}
                 start == SetMin(created)
                 end == SetMax(created)
                 days == timedelta_days(end, start)
                 weeks_active == IF days \div 7 > 1 THEN days \div 7 ELSE 1
             IN  [applications_total |-> applications_total,
                  applications_per_week |-> Ratio(applications_total, weeks_active),
                  follow_up_rate |-> follow_up_rate,
                  zero_outreach_rate |-> zero_outreach_rate,
                  idle_application_rate |-> idle_application_rate,
                  high_idle_portfolio |->
                      Some(RatioLess(HIGH_IDLE_RATE_THRESHOLD, idle_application_rate)),
                  low_follow_up_portfolio |->
                      Some(RatioLess(follow_up_rate, LOW_FOLLOW_UP_RATE_THRESHOLD))]

portfolio_metrics_view ==
    LET app_rows == application_metrics_view
        applications_total == Len(app_rows)
        HasFollowUp(r) == r.has_follow_up
        ZeroOutreach(r) == r.total_outreach_count = 0
        Idle(r) == r.is_idle_application
    IN  IF applications_total = 0
        THEN [applications_total |-> 0,
              applications_per_week |-> None,
              follow_up_rate |-> None,
              zero_outreach_rate |-> None,
              idle_application_rate |-> None,
              high_idle_portfolio |-> None,
              low_follow_up_portfolio |-> None]
        ELSE LET follow_up_rate == Ratio(Count(app_rows, HasFollowUp), applications_total)
                 zero_outreach_rate == Ratio(Count(app_rows, ZeroOutreach), applications_total)
                 idle_application_rate == Ratio(Count(app_rows, Idle), applications_total)
                 created == {applications[i].created_at : i \in DOMAIN applications}
                 start == SetMin(created)
                 end == SetMax(created)
                 days == timedelta_days(end, start)
                 weeks_active == IF (days + 6) \div 7 > 1 THEN (days + 6) \div 7 ELSE 1
             IN  [applications_total |-> applications_total,
                  applications_per_week |-> Ratio(applications_total, weeks_active),
                  follow_up_rate |-> follow_up_rate,
                  zero_outreach_rate |-> zero_outreach_rate,
                  idle_application_rate |-> idle_application_rate,
                  high_idle_portfolio |->
                      Some(RatioLess(HIGH_IDLE_RATE_THRESHOLD, idle_application_rate)),
                  low_follow_up_portfolio |->
                      Some(RatioLess(follow_up_rate, LOW_FOLLOW_UP_RATE_THRESHOLD))]

\* ------------------------------------------------------------------ Pillar C

\* the outreach rule tried before the closed rule
application_state_outreach_first(metrics_row) ==
    IF metrics_row.total_outreach_count = 0 THEN "unengaged"
    ELSE IF metrics_row.current_status = "closed" THEN "closed"
    ELSE LET days_idle == Get(metrics_row, "days_since_last_action", None)
         IN  IF days_idle # None /\ days_idle[1] > IDLE_DAYS_THRESHOLD
             THEN "engaged_idle"
             ELSE "active"

application_state(metrics_row) ==
    IF metrics_row.current_status = "closed" THEN "closed"
    ELSE IF metrics_row.total_outreach_count = 0 THEN "unengaged"
    ELSE LET days_idle == Get(metrics_row, "days_since_last_action", None)
         IN  IF days_idle # None /\ days_idle[1] > IDLE_DAYS_THRESHOLD
             THEN "engaged_idle"
             ELSE "active"

application_state_view ==
    LET rows == application_metrics_view
    IN  [i \in DOMAIN rows |->
            rows[i] @@ [application_state |-> application_state(rows[i])]]

\* the response threshold tried before the sample size
channel_signal_state_stable_first(channel_row) ==
    LET outreach_count == channel_row.outreach_count_by_channel
        response_count_ == channel_row.response_count_by_channel
        flags == [no_response_flag |-> response_count_ = 0]
    IN  IF response_count_ = 0 THEN <<"no_signal", flags>>
        ELSE IF response_count_ >= STABLE_RESPONSE_COUNT_THRESHOLD
        THEN <<"stable_signal", flags>>
        ELSE IF outreach_count < MIN_CHANNEL_SAMPLE_SIZE THEN <<"insufficient_data", flags>>
        ELSE <<"emerging_signal", flags>>

\* the pair (state, flags) returned by channel_signal_state
channel_signal_state(channel_row) ==
    LET outreach_count == channel_row.outreach_count_by_channel
        response_count_ == channel_row.response_count_by_channel
        flags == [no_response_flag |-> response_count_ = 0]
    IN  IF response_count_ = 0 THEN <<"no_signal", flags>>
        ELSE IF outreach_count < MIN_CHANNEL_SAMPLE_SIZE THEN <<"insufficient_data", flags>>
        ELSE IF response_count_ >= STABLE_RESPONSE_COUNT_THRESHOLD
             THEN <<"stable_signal", flags>>
             ELSE <<"emerging_signal", flags>>

classified_channel_row(r) ==
    r @@ [channel_signal_state |-> channel_signal_state(r)[1],
          channel_flags |-> channel_signal_state(r)[2]]

channel_signal_state_view ==
    LET rows == channel_metrics_view
    IN  [k \in DOMAIN rows |-> classified_channel_row(rows[k])]

\* a None flag is false
Truthy(x) == x # None /\ x[1]

\* the inactivity rule without its threshold: only an unknown rate is inactive
portfolio_pattern_no_inactivity_threshold(portfolio_row) ==
    LET apps_per_week == portfolio_row.applications_per_week
        idle_rate == portfolio_row.idle_application_rate
        follow_up_rate == portfolio_row.follow_up_rate
    IN  IF apps_per_week = None THEN "inactive"
        ELSE IF ~RatioGeq(apps_per_week, ACTIVITY_RATE_THRESHOLD)
        THEN "unstructured_bursting"
        ELSE IF Truthy(portfolio_row.high_idle_portfolio) THEN "stalled"
        ELSE IF idle_rate = None THEN "TypeError"
        ELSE IF RatioGeq(idle_rate, HIGH_IDLE_RATE_THRESHOLD) THEN "unstructured_bursting"
        ELSE IF follow_up_rate = None THEN "TypeError"
        ELSE IF RatioGeq(follow_up_rate, LOW_FOLLOW_UP_RATE_THRESHOLD)
             THEN "steady_engagement"
             ELSE "unstructured_bursting"

\* the third rule with a strict comparison: an idle rate of exactly 0.30 passes
portfolio_pattern_idle_strict(portfolio_row) ==
    LET apps_per_week == portfolio_row.applications_per_week
        idle_rate == portfolio_row.idle_application_rate
        follow_up_rate == portfolio_row.follow_up_rate
    IN  IF apps_per_week = None \/ RatioLess(apps_per_week, INACTIVITY_RATE_THRESHOLD)
        THEN "inactive"
        ELSE IF ~RatioGeq(apps_per_week, ACTIVITY_RATE_THRESHOLD)
        THEN "unstructured_bursting"
        ELSE IF Truthy(portfolio_row.high_idle_portfolio) THEN "stalled"
        ELSE IF idle_rate = None THEN "TypeError"
        ELSE IF RatioLess(HIGH_IDLE_RATE_THRESHOLD, idle_rate) THEN "unstructured_bursting"
        ELSE IF follow_up_rate = None THEN "TypeError"
        ELSE IF RatioGeq(follow_up_rate, LOW_FOLLOW_UP_RATE_THRESHOLD)
             THEN "steady_engagement"
             ELSE "unstructured_bursting"

\* comparing None with a number raises TypeError
portfolio_pattern(portfolio_row) ==
    LET apps_per_week == portfolio_row.applications_per_week
        idle_rate == portfolio_row.idle_application_rate
        follow_up_rate == portfolio_row.follow_up_rate
    IN  IF apps_per_week = None \/ RatioLess(apps_per_week, INACTIVITY_RATE_THRESHOLD)
        THEN "inactive"
        ELSE IF ~RatioGeq(apps_per_week, ACTIVITY_RATE_THRESHOLD)
        THEN "unstructured_bursting"
        ELSE IF Truthy(portfolio_row.high_idle_portfolio) THEN "stalled"
        ELSE IF idle_rate = None THEN "TypeError"
        ELSE IF RatioGeq(idle_rate, HIGH_IDLE_RATE_THRESHOLD) THEN "unstructured_bursting"
        ELSE IF follow_up_rate = None THEN "TypeError"
        ELSE IF RatioGeq(follow_up_rate, LOW_FOLLOW_UP_RATE_THRESHOLD)
             THEN "steady_engagement"
             ELSE "unstructured_bursting"

portfolio_pattern_view ==
    LET row == portfolio_metrics_view
        channel_rows == channel_signal_state_view
        Stable(c) == c.channel_signal_state = "stable_signal"
        stable_channels == Count(channel_rows, Stable)
        total_channels == IF Len(channel_rows) > 1 THEN Len(channel_rows) ELSE 1
        counts == {channel_rows[k].response_count_by_channel : k \in DOMAIN channel_rows}
        RECURSIVE Sum(_)
        Sum(k) == IF k = 0 THEN 0 ELSE channel_rows[k].response_count_by_channel + Sum(k - 1)
        total_responses == Sum(Len(channel_rows))
        max_responses == IF counts = {} THEN 0 ELSE SetMax(counts)
    IN  row @@ [portfolio_pattern |-> portfolio_pattern(row),
                low_signal_environment_flag |->
                    RatioLess(Ratio(stable_channels, total_channels),
                              STABLE_CHANNEL_RATIO_THRESHOLD),
                channel_dependency_flag |->
                    IF total_responses = 0 THEN FALSE
                    ELSE RatioGeq(Ratio(max_responses, total_responses),
                                  CHANNEL_DEPENDENCY_THRESHOLD)]

\* ------------------------------------------------------------------ Pillar D

APPLICATION_STATE_TEMPLATES ==
    [unengaged |->
        [base |-> "This application has been submitted, but no outreach has been logged yet."],
     engaged_idle |->
        [base |-> "Outreach has occurred, but there has been no recent activity on this application."],
     active |->
        [base |-> "This application has ongoing outreach activity."],
     closed |->
        [base |-> "This application is marked as closed."]]

\* the two modifiers in the other order
APPLICATION_FLAG_TEMPLATES_no_follow_up_first ==
    << <<"no_follow_up_flag", "No follow-up has been logged after initial outreach.">>,
       <<"responded_flag", "A response has been received for this application.">> >>

\* a dict keeps insertion order: the items in the order of the source
APPLICATION_FLAG_TEMPLATES ==
    << <<"responded_flag", "A response has been received for this application.">>,
       <<"no_follow_up_flag", "No follow-up has been logged after initial outreach.">> >>

assemble_application_narrative(application_state_, flags) ==
    IF application_state_ \notin DOMAIN APPLICATION_STATE_TEMPLATES
    THEN <<>>
    ELSE LET base == APPLICATION_STATE_TEMPLATES[application_state_].base
             hits == {i \in DOMAIN APPLICATION_FLAG_TEMPLATES :
                         Get(flags, APPLICATION_FLAG_TEMPLATES[i][1], FALSE)}
         IN  IF hits = {} THEN <<base>>
             ELSE <<base, APPLICATION_FLAG_TEMPLATES[SetMin(hits)][2]>>

describe_application(application_state_, no_follow_up_flag, responded_flag) ==
    assemble_application_narrative(
        application_state_,
        [no_follow_up_flag |-> no_follow_up_flag, responded_flag |-> responded_flag])

CHANNEL_SIGNAL_TEMPLATES ==
    [no_signal |-> "This channel has not produced any responses yet.",
     insufficient_data |->
        "This channel has produced some responses, but there is not yet enough data to interpret patterns.",
     emerging_signal |->
        "This channel is beginning to show response patterns, though the signal is still forming.",
     stable_signal |->
        "This channel has produced enough activity to support reliable pattern observation."]

CHANNEL_FLAG_TEMPLATES ==
    << <<"no_response_flag", "No responses have been observed on this channel so far.">> >>

\* the eligible sentences without the suppression for weak signal
eligible_channel_sentences_unsuppressed(channel_row) ==
    LET state == Get(channel_row, "channel_signal_state", None)
        flags == Get(channel_row, "channel_flags", <<>>)
        Set(i) == Get(flags, CHANNEL_FLAG_TEMPLATES[i][1], FALSE)
        hits == SelectSeq([i \in DOMAIN CHANNEL_FLAG_TEMPLATES |-> i], Set)
    IN  IF state \notin DOMAIN CHANNEL_SIGNAL_TEMPLATES THEN <<None, <<>>>>
        ELSE <<Some(CHANNEL_SIGNAL_TEMPLATES[state]),
               [k \in DOMAIN hits |-> CHANNEL_FLAG_TEMPLATES[hits[k]][2]]>>

\* the pair (base_sentence, optional_sentences); the base sentence is optional
eligible_channel_sentences(channel_row) ==
    LET state == Get(channel_row, "channel_signal_state", None)
        flags == Get(channel_row, "channel_flags", <<>>)
        Set(i) == Get(flags, CHANNEL_FLAG_TEMPLATES[i][1], FALSE)
        hits == SelectSeq([i \in DOMAIN CHANNEL_FLAG_TEMPLATES |-> i], Set)
    IN  IF state \notin DOMAIN CHANNEL_SIGNAL_TEMPLATES THEN <<None, <<>>>>
        ELSE IF state \in {"no_signal", "insufficient_data"}
        THEN <<Some(CHANNEL_SIGNAL_TEMPLATES[state]), <<>>>>
        ELSE <<Some(CHANNEL_SIGNAL_TEMPLATES[state]),
               [k \in DOMAIN hits |-> CHANNEL_FLAG_TEMPLATES[hits[k]][2]]>>

assemble_channel_summary(channel_row) ==
    LET base_sentence == eligible_channel_sentences(channel_row)[1]
        optional_sentences == eligible_channel_sentences(channel_row)[2]
    IN  IF base_sentence = None THEN <<>>
        ELSE IF optional_sentences = <<>> THEN <<base_sentence[1]>>
        ELSE <<base_sentence[1], optional_sentences[1]>>

describe_channel(channel_row) == assemble_channel_summary(channel_row)

PORTFOLIO_PATTERN_TEMPLATES ==
    [inactive |-> "Overall activity across applications has been limited recently.",
     unstructured_bursting |->
        "Applications are being submitted, but engagement across them has been uneven.",
     steady_engagement |->
        "Applications are being submitted and engaged with consistently.",
     stalled |->
        "Earlier activity occurred, but many applications have since become inactive."]

PORTFOLIO_FLAG_TEMPLATES ==
    << <<"low_follow_up_portfolio_flag",
         "Follow-up activity has been limited across applications.">>,
       <<"high_idle_portfolio_flag",
         "A sizable portion of applications have not been touched recently.">>,
       <<"channel_dependency_flag",
         "Most responses have come from a single outreach channel.">>,
       <<"low_signal_environment_flag",
         "Across channels, response signals remain limited.">> >>

\* the eligible sentences without the redundancy suppression
eligible_portfolio_sentences_unsuppressed(portfolio_row) ==
    LET pattern == Get(portfolio_row, "portfolio_pattern", None)
        Set(item) == Get(portfolio_row, item[1], FALSE)
    IN  IF pattern \notin DOMAIN PORTFOLIO_PATTERN_TEMPLATES THEN <<None, <<>>>>
        ELSE <<Some(PORTFOLIO_PATTERN_TEMPLATES[pattern]),
               SelectSeq(PORTFOLIO_FLAG_TEMPLATES, Set)>>

\* the pair (primary_sentence, secondary_sentences); the primary sentence is
\* optional, the secondary ones are (flag_name, sentence) pairs
eligible_portfolio_sentences(portfolio_row) ==
    LET pattern == Get(portfolio_row, "portfolio_pattern", None)
        Set(item) == Get(portfolio_row, item[1], FALSE)
        NotHighIdle(item) == item[1] # "high_idle_portfolio_flag"
        secondary_sentences == SelectSeq(PORTFOLIO_FLAG_TEMPLATES, Set)
    IN  IF pattern \notin DOMAIN PORTFOLIO_PATTERN_TEMPLATES THEN <<None, <<>>>>
        ELSE <<Some(PORTFOLIO_PATTERN_TEMPLATES[pattern]),
               IF pattern = "stalled"
               THEN SelectSeq(secondary_sentences, NotHighIdle)
               ELSE secondary_sentences>>

\* the flags in the order of PORTFOLIO_FLAG_TEMPLATES
priority_order_of_templates ==
    <<"low_follow_up_portfolio_flag", "high_idle_portfolio_flag",
      "channel_dependency_flag", "low_signal_environment_flag">>

priority_order ==
    <<"channel_dependency_flag", "low_follow_up_portfolio_flag",
      "high_idle_portfolio_flag", "low_signal_environment_flag">>

assemble_portfolio_summary(portfolio_row) ==
    LET primary_sentence == eligible_portfolio_sentences(portfolio_row)[1]
        secondary_sentences == eligible_portfolio_sentences(portfolio_row)[2]
        Of(flag) ==
            LET Is(item) == item[1] = flag
                found == SelectSeq(secondary_sentences, Is)
            IN  [k \in DOMAIN found |-> found[k][2]]
        RECURSIVE Ordered(_)
        Ordered(n) == IF n = 0 THEN <<>> ELSE Ordered(n - 1) \o Of(priority_order[n])
    IN  IF primary_sentence = None THEN <<>>
        ELSE <<primary_sentence[1]>> \o Take(Ordered(Len(priority_order)), 2)

describe_portfolio(portfolio_row) == assemble_portfolio_summary(portfolio_row)

MAX_APPLICATIONS_DISPLAYED == 5
MAX_APPLICATION_SENTENCES == 2
MAX_CHANNEL_SENTENCES == 1
MAX_PORTFOLIO_SENTENCES == 3

\* closed applications are never filtered out
filter_active_applications_keep_all(application_rows) == application_rows

filter_active_applications(application_rows) ==
    LET NotClosed(r) == Get(r, "application_state", None) # "closed"
        active == SelectSeq(application_rows, NotClosed)
    IN  IF active # <<>> THEN active ELSE application_rows

\* only no_signal is suppressed
filter_low_signal_channels_no_signal_only(channel_rows) ==
    LET Signal(r) == Get(r, "channel_signal_state", None) # "no_signal"
    IN  SelectSeq(channel_rows, Signal)

filter_low_signal_channels(channel_rows) ==
    LET Signal(r) ==
            Get(r, "channel_signal_state", None) \notin {"no_signal", "insufficient_data"}
    IN  SelectSeq(channel_rows, Signal)

application_narrative_of(r) ==
    describe_application(Get(r, "application_state", None),
                         Get(r, "has_no_follow_up", FALSE),
                         Get(r, "responded_flag", FALSE))

\* no cap on the applications shown
displayed_applications_uncapped(filtered_apps) == filtered_apps

\* filtered_apps[:MAX_APPLICATIONS_DISPLAYED]
displayed_applications(filtered_apps) == Take(filtered_apps, MAX_APPLICATIONS_DISPLAYED)

assemble_insight_bundle(application_rows, channel_rows, portfolio_row, include_channels) ==
    LET filtered_apps == filter_active_applications(application_rows)
        Narrated(r) == application_narrative_of(r) # <<>>
        shown_apps == SelectSeq(displayed_applications(filtered_apps), Narrated)
        filtered_channels == filter_low_signal_channels(channel_rows)
        Summarised(r) == describe_channel(r) # <<>>
        shown_channels == SelectSeq(filtered_channels, Summarised)
    IN  [portfolio |-> Take(describe_portfolio(portfolio_row), MAX_PORTFOLIO_SENTENCES),
         applications |->
            [i \in DOMAIN shown_apps |->
                [application_id |-> Get(shown_apps[i], "application_id", None),
                 sentences |-> Take(application_narrative_of(shown_apps[i]),
                                    MAX_APPLICATION_SENTENCES)]],
         channels |->
            IF include_channels
            THEN [k \in DOMAIN shown_channels |->
                    [channel_name |-> Get(shown_channels[k], "channel_name", None),
                     sentences |-> Take(describe_channel(shown_channels[k]),
                                        MAX_CHANNEL_SENTENCES)]]
            ELSE <<>>]

\* the runner's pass: the three state views, then the bundle
full_pass ==
    [application_rows |-> application_state_view,
     channel_rows |-> channel_signal_state_view,
     portfolio_row |-> portfolio_pattern_view,
     bundle |-> assemble_insight_bundle(application_state_view,
                                        channel_signal_state_view,
                                        portfolio_pattern_view, TRUE)]

\* ------------------------------------------------------------------ Pillar A

\* the queries application_metrics_view makes for one application, in the order
\* of the source; total_action_count and effort_score_raw make three each
ViewQueries ==
    <<"customization_flags", "days_since_last_action", "total_outreach_count",
      "follow_up_count", "current_status", "has_response",
      "total_action_count.total_outreach_count", "total_action_count.response_count",
      "total_action_count.status_change_count",
      "effort_score_raw.total_outreach_count", "effort_score_raw.response_count",
      "effort_score_raw.status_change_count">>

\* the local variables of the loop body before its first query
ViewLocals ==
    [customization |-> [resume_customized |-> FALSE, cover_letter_customized |-> FALSE,
                        any_customization |-> FALSE],
     days_idle |-> None,
     outreach_total |-> 0,
     follow_ups |-> 0,
     current_status |-> "open",
     responded_flag |-> FALSE,
     total_action_count |-> 0,
     effort_score_raw |-> 0]

\* no application_metrics_view is running
ViewIdle ==
    [pc |-> "idle", application_ids |-> <<>>, index |-> 0, locals |-> ViewLocals,
     rows |-> <<>>]

Init ==
    /\ now = 0
    /\ applications = <<>>
    /\ outreach_events = <<>>
    /\ response_events = <<>>
    /\ status_history = <<>>
    /\ application_customization = {}
    /\ op = "init"
    /\ arg = <<>>
    /\ ret = None
    /\ view = ViewIdle

\* company, role and application_link are stored and never read back; the new
\* row gets the next AUTOINCREMENT id and CURRENT_TIMESTAMP
add_application ==
    /\ Len(applications) < MaxApps
    /\ applications' = Append(applications,
            [application_id |-> Len(applications) + 1, created_at |-> now])
    /\ op' = "add_application"
    /\ arg' = <<>>
    /\ ret' = Some(Len(applications) + 1)
    /\ UNCHANGED <<view, now, outreach_events, response_events, status_history,
                   application_customization>>

\* the new event overwrites the log
add_outreach_overwrite(application_id, channel, outreach_type) ==
    /\ Len(outreach_events) < MaxOutreach
    /\ outreach_events' =
            <<[application_id |-> application_id, channel |-> channel,
               outreach_type |-> outreach_type, timestamp |-> now]>>
    /\ op' = "add_outreach"
    /\ arg' = <<application_id, channel, outreach_type>>
    /\ ret' = None
    /\ UNCHANGED <<view, now, applications, response_events, status_history,
                   application_customization>>

\* the foreign key is declared but sqlite3.connect leaves foreign keys off, so
\* any application_id is accepted
add_outreach(application_id, channel, outreach_type) ==
    /\ Len(outreach_events) < MaxOutreach
    /\ outreach_events' = Append(outreach_events,
            [application_id |-> application_id, channel |-> channel,
             outreach_type |-> outreach_type, timestamp |-> now])
    /\ op' = "add_outreach"
    /\ arg' = <<application_id, channel, outreach_type>>
    /\ ret' = None
    /\ UNCHANGED <<view, now, applications, response_events, status_history,
                   application_customization>>

add_response(application_id, channel, response_type) ==
    /\ Len(response_events) < MaxResponses
    /\ response_events' = Append(response_events,
            [application_id |-> application_id, channel |-> channel,
             response_type |-> response_type, timestamp |-> now])
    /\ op' = "add_response"
    /\ arg' = <<application_id, channel, response_type>>
    /\ ret' = None
    /\ UNCHANGED <<view, now, applications, outreach_events, status_history,
                   application_customization>>

\* a plain INSERT on a table without the primary key: the old row stays
add_customization_insert(application_id, resume_customized, cover_letter_customized) ==
    /\ application_customization' =
            application_customization
                \cup {[application_id |-> application_id,
                       resume_customized |-> resume_customized,
                       cover_letter_customized |-> cover_letter_customized]}
    /\ op' = "add_customization"
    /\ arg' = <<application_id, resume_customized, cover_letter_customized>>
    /\ ret' = None
    /\ UNCHANGED <<view, now, applications, outreach_events, response_events, status_history>>

\* INSERT OR REPLACE: the row that conflicts on the primary key application_id
\* is deleted, then the new row is inserted; the timestamp column is written and
\* never read back
add_customization(application_id, resume_customized, cover_letter_customized) ==
    /\ application_customization' =
            {r \in application_customization : r.application_id # application_id}
                \cup {[application_id |-> application_id,
                       resume_customized |-> resume_customized,
                       cover_letter_customized |-> cover_letter_customized]}
    /\ op' = "add_customization"
    /\ arg' = <<application_id, resume_customized, cover_letter_customized>>
    /\ ret' = None
    /\ UNCHANGED <<view, now, applications, outreach_events, response_events, status_history>>

\* the runner: application_state_view, channel_signal_state_view,
\* portfolio_pattern_view and assemble_insight_bundle on their results
run_full_pass ==
    /\ op' = "full_pass"
    /\ arg' = <<>>
    /\ ret' = full_pass
    /\ UNCHANGED <<view, now, applications, outreach_events, response_events,
                   status_history, application_customization>>

\* time passes between calls
Tick ==
    /\ \E d \in TickSteps : now + d <= MaxNow /\ now' = now + d
    /\ UNCHANGED <<view, applications, outreach_events, response_events, status_history,
                   application_customization, op, arg, ret>>

\* the calls on the event store, at one clock reading
Next ==
    \/ add_application
    \/ \E a \in AppIds, c \in Channels, t \in OutreachTypes : add_outreach(a, c, t)
    \/ \E a \in AppIds, c \in Channels, t \in ResponseTypes : add_response(a, c, t)
    \/ \E a \in AppIds, r \in BOOLEAN, c \in BOOLEAN : add_customization(a, r, c)
    \/ run_full_pass

Spec == Init /\ [][Next]_vars

\* the event calls and the runner while time passes
NextClock ==
    \/ add_application
    \/ \E a \in AppIds, c \in Channels, t \in OutreachTypes : add_outreach(a, c, t)
    \/ \E a \in AppIds, c \in Channels, t \in ResponseTypes : add_response(a, c, t)
    \/ run_full_pass
    \/ Tick

SpecClock == Init /\ [][NextClock]_vars

\* ------------------------------------------------------------------ a view read
\* query by query while another process appends events

\* line 362: SELECT application_id FROM applications, then the loop starts
application_metrics_view_begin ==
    /\ view.pc = "idle"
    /\ LET application_ids == [i \in DOMAIN applications |-> applications[i].application_id]
       IN  IF application_ids = <<>>
           THEN /\ view' = [ViewIdle EXCEPT !.pc = "done"]
                /\ op' = "application_metrics_view"
                /\ arg' = <<>>
                /\ ret' = <<>>
           ELSE /\ view' = [ViewIdle EXCEPT !.pc = ViewQueries[1],
                                            !.application_ids = application_ids,
                                            !.index = 1]
                /\ UNCHANGED <<op, arg, ret>>
    /\ UNCHANGED <<now, applications, outreach_events, response_events,
                   status_history, application_customization>>

\* the local variables after the query at view.pc has read the store
view_query_result(app_id) ==
    LET l == view.locals
    IN  CASE view.pc = "customization_flags" ->
                [l EXCEPT !.customization = customization_flags(app_id)]
          [] view.pc = "days_since_last_action" ->
                [l EXCEPT !.days_idle = days_since_last_action(app_id)]
          [] view.pc = "total_outreach_count" ->
                [l EXCEPT !.outreach_total = total_outreach_count(app_id)]
          [] view.pc = "follow_up_count" ->
                [l EXCEPT !.follow_ups = follow_up_count(app_id)]
          [] view.pc = "current_status" ->
                [l EXCEPT !.current_status = current_status(app_id)]
          [] view.pc = "has_response" ->
                [l EXCEPT !.responded_flag = has_response(app_id)]
          [] view.pc = "total_action_count.total_outreach_count" ->
                [l EXCEPT !.total_action_count = total_outreach_count(app_id)]
          [] view.pc = "total_action_count.response_count" ->
                [l EXCEPT !.total_action_count = @ + response_count(app_id)]
          [] view.pc = "total_action_count.status_change_count" ->
                [l EXCEPT !.total_action_count = @ + status_change_count(app_id)]
          [] view.pc = "effort_score_raw.total_outreach_count" ->
                [l EXCEPT !.effort_score_raw = total_outreach_count(app_id)]
          [] view.pc = "effort_score_raw.response_count" ->
                [l EXCEPT !.effort_score_raw = @ + response_count(app_id)]
          [] view.pc = "effort_score_raw.status_change_count" ->
                [l EXCEPT !.effort_score_raw = @ + status_change_count(app_id)]

\* lines 375-393: the row built from the local variables
view_row(app_id, l) ==
    [application_id |-> app_id,
     current_status |-> l.current_status,
     days_since_last_action |-> l.days_idle,
     total_outreach_count |-> l.outreach_total,
     follow_up_count |-> l.follow_ups,
     has_follow_up |-> l.follow_ups > 0,
     responded_flag |-> l.responded_flag,
     total_action_count |-> l.total_action_count,
     effort_score_raw |-> l.effort_score_raw,
     has_zero_outreach |-> l.outreach_total = 0,
     has_no_follow_up |-> l.outreach_total > 0 /\ l.follow_ups = 0,
     is_idle_application |->
         l.days_idle # None /\ l.days_idle[1] > IDLE_DAYS_THRESHOLD,
     resume_customized |-> l.customization.resume_customized,
     cover_letter_customized |-> l.customization.cover_letter_customized,
     any_customization |-> l.customization.any_customization]

\* one query of the loop body; after the last one the row is appended and the
\* loop moves to the next application or returns the rows
application_metrics_view_step ==
    /\ \E q \in DOMAIN ViewQueries : view.pc = ViewQueries[q]
    /\ LET q == CHOOSE n \in DOMAIN ViewQueries : view.pc = ViewQueries[n]
           app_id == view.application_ids[view.index]
           l == view_query_result(app_id)
           rows == Append(view.rows, view_row(app_id, l))
       IN  IF q < Len(ViewQueries)
           THEN /\ view' = [view EXCEPT !.pc = ViewQueries[q + 1], !.locals = l]
                /\ UNCHANGED <<op, arg, ret>>
           ELSE IF view.index < Len(view.application_ids)
           THEN /\ view' = [view EXCEPT !.pc = ViewQueries[1], !.index = @ + 1,
                                        !.locals = ViewLocals, !.rows = rows]
                /\ UNCHANGED <<op, arg, ret>>
           ELSE /\ view' = [ViewIdle EXCEPT !.pc = "done"]
                /\ op' = "application_metrics_view"
                /\ arg' = <<>>
                /\ ret' = rows
    /\ UNCHANGED <<now, applications, outreach_events, response_events,
                   status_history, application_customization>>

\* the appends of another process between the queries of one view read
NextRead ==
    \/ add_application
    \/ \E a \in AppIds, t \in OutreachTypes : add_outreach(a, "email", t)
    \/ \E a \in AppIds : add_response(a, "email", "reply")
    \/ application_metrics_view_begin
    \/ application_metrics_view_step

SpecRead == Init /\ [][NextRead]_vars

\* ------------------------------------------------------------------ direct calls

\* the sequences of length at most n over the set K
ListsUpTo(n, K) == UNION {[1 .. k -> K] : k \in 0 .. n}

StatusLabels == {"open", "closed", "interviewing"}

ApplicationStateLabels == {"closed", "unengaged", "engaged_idle", "active"}

ChannelStateLabels == {"no_signal", "insufficient_data", "emerging_signal", "stable_signal"}

PortfolioPatternLabels == {"inactive", "stalled", "unstructured_bursting", "steady_engagement"}

\* metrics rows: any status, any count, recency unknown, negative or positive
MetricsRowInputs ==
    [current_status : StatusLabels,
     total_outreach_count : 0 .. MaxCount,
     days_since_last_action : {None} \cup {Some(d) : d \in -1 .. MaxDays}]

ChannelRowInputs ==
    [channel_name : {"email"},
     outreach_count_by_channel : 0 .. MaxChannelCount,
     response_count_by_channel : 0 .. MaxChannelCount]

\* portfolio rows: any pattern label, one of them unknown, any flags
PortfolioRowInputs ==
    [portfolio_pattern : PortfolioPatternLabels \cup {"paused"},
     channel_dependency_flag : BOOLEAN,
     low_follow_up_portfolio_flag : BOOLEAN,
     high_idle_portfolio_flag : BOOLEAN,
     low_signal_environment_flag : BOOLEAN]

\* the rates a portfolio metrics row may carry, unknown included; 3/10 and 1/2
\* are the thresholds themselves
WeekRates == {None, Ratio(1, 5), Ratio(1, 2), Ratio(3, 4), Ratio(1, 1), Ratio(2, 1)}

IdleRates == {None, Ratio(0, 1), Ratio(1, 5), Ratio(3, 10), Ratio(1, 3), Ratio(1, 1)}

FollowUpRates == {None, Ratio(0, 1), Ratio(2, 5), Ratio(1, 2), Ratio(1, 1)}

\* portfolio metrics rows as portfolio_pattern reads them: every rate known or
\* unknown, the high-idle flag unknown, set or clear whatever the idle rate
PatternRowInputs ==
    [applications_per_week : WeekRates,
     idle_application_rate : IdleRates,
     follow_up_rate : FollowUpRates,
     high_idle_portfolio : {None, Some(TRUE), Some(FALSE)}]

\* application rows as the bundle reads them; "archived" is an unknown label
AppRowKinds ==
    [application_state : ApplicationStateLabels \cup {"archived"},
     has_no_follow_up : BOOLEAN,
     responded_flag : BOOLEAN]

FlaggedRowKinds == {k \in AppRowKinds : k.has_no_follow_up /\ k.responded_flag}

\* the row at position i carries application_id i
Numbered(kinds) == [i \in DOMAIN kinds |-> kinds[i] @@ [application_id |-> i]]

ApplicationRowLists ==
    {Numbered(l) : l \in ListsUpTo(MaxShortList, AppRowKinds)
                         \cup ListsUpTo(MaxAppRows, FlaggedRowKinds)}

\* channel rows as the bundle reads them: classified from counts, or carrying
\* any label ("muted" is unknown) and any flag
ChannelRowKinds ==
    {classified_channel_row(
        [outreach_count_by_channel |-> o, response_count_by_channel |-> r]) :
            o \in {2, 5, 10}, r \in {0, 2, 4}}
    \cup [channel_signal_state : ChannelStateLabels \cup {"muted"},
          channel_flags : [no_response_flag : BOOLEAN]]

ChannelNames == <<"email", "referral", "linkedin", "recruiter">>

Named(kinds) == [k \in DOMAIN kinds |-> kinds[k] @@ [channel_name |-> ChannelNames[k]]]

ChannelRowLists == {Named(l) : l \in ListsUpTo(MaxChannelRows, ChannelRowKinds)}

PlainPortfolioRow ==
    [portfolio_pattern |-> "steady_engagement",
     channel_dependency_flag |-> FALSE,
     low_follow_up_portfolio_flag |-> FALSE,
     high_idle_portfolio_flag |-> FALSE,
     low_signal_environment_flag |-> FALSE]

\* the inputs of assemble_insight_bundle: each argument varied over its whole
\* set while the others stay small
BundleInputs ==
    [application_rows : ApplicationRowLists, channel_rows : {<<>>},
     portfolio_row : {PlainPortfolioRow}, include_channels : {TRUE}]
    \cup [application_rows : {l \in ApplicationRowLists : Len(l) <= 1},
          channel_rows : ChannelRowLists,
          portfolio_row : {PlainPortfolioRow}, include_channels : BOOLEAN]
    \cup [application_rows : {l \in ApplicationRowLists : Len(l) <= 1},
          channel_rows : {l \in ChannelRowLists : Len(l) <= 1},
          portfolio_row : PortfolioRowInputs, include_channels : {TRUE}]

call_application_state ==
    /\ op = "init"
    /\ \E row \in MetricsRowInputs :
        /\ op' = "application_state"
        /\ arg' = row
        /\ ret' = application_state(row)
    /\ UNCHANGED <<view, now, applications, outreach_events, response_events,
                   status_history, application_customization>>

call_channel_signal_state ==
    /\ op = "init"
    /\ \E row \in ChannelRowInputs :
        /\ op' = "channel_signal_state"
        /\ arg' = row
        /\ ret' = channel_signal_state(row)
    /\ UNCHANGED <<view, now, applications, outreach_events, response_events,
                   status_history, application_customization>>

call_portfolio_pattern ==
    /\ op = "init"
    /\ \E row \in PatternRowInputs :
        /\ op' = "portfolio_pattern"
        /\ arg' = row
        /\ ret' = portfolio_pattern(row)
    /\ UNCHANGED <<view, now, applications, outreach_events, response_events,
                   status_history, application_customization>>

\* the portfolio views on the store as it stands
call_portfolio_pattern_view ==
    /\ op = "init"
    /\ op' = "portfolio_pattern_view"
    /\ arg' = <<>>
    /\ ret' = [metrics |-> portfolio_metrics_view, row |-> portfolio_pattern_view]
    /\ UNCHANGED <<view, now, applications, outreach_events, response_events,
                   status_history, application_customization>>

\* channel rows as describe_channel reads them: every row of ChannelRowInputs
\* classified by channel_signal_state, and rows carrying any label and any flag
DescribeChannelInputs ==
    {classified_channel_row(r) : r \in ChannelRowInputs}
    \cup [channel_signal_state : ChannelStateLabels \cup {"muted"},
          channel_flags : [no_response_flag : BOOLEAN]]

call_describe_channel ==
    /\ op = "init"
    /\ \E row \in DescribeChannelInputs :
        /\ op' = "describe_channel"
        /\ arg' = row
        /\ ret' = describe_channel(row)
    /\ UNCHANGED <<view, now, applications, outreach_events, response_events,
                   status_history, application_customization>>

call_describe_portfolio ==
    /\ op = "init"
    /\ \E row \in PortfolioRowInputs :
        /\ op' = "describe_portfolio"
        /\ arg' = row
        /\ ret' = describe_portfolio(row)
    /\ UNCHANGED <<view, now, applications, outreach_events, response_events,
                   status_history, application_customization>>

call_assemble_insight_bundle ==
    /\ op = "init"
    /\ \E inp \in BundleInputs :
        /\ op' = "assemble_insight_bundle"
        /\ arg' = inp
        /\ ret' = assemble_insight_bundle(inp.application_rows, inp.channel_rows,
                                          inp.portfolio_row, inp.include_channels)
    /\ UNCHANGED <<view, now, applications, outreach_events, response_events,
                   status_history, application_customization>>

\* one call of a classifier or of the assembler directly on rows
NextRows ==
    \/ call_application_state
    \/ call_channel_signal_state
    \/ call_portfolio_pattern
    \/ call_portfolio_pattern_view
    \/ call_describe_channel
    \/ call_describe_portfolio
    \/ call_assemble_insight_bundle

SpecRows == Init /\ [][NextRows]_vars

\* ------------------------------------------------------------------ claims

Range(seq) == {seq[i] : i \in DOMAIN seq}

\* C1: application_state returns one of closed, unengaged, engaged_idle, active
\* for every metrics row, and closed whenever current_status is "closed",
\* whatever the outreach count and the recency.
C1_ApplicationStateTotal ==
    op = "application_state" =>
        /\ ret \in ApplicationStateLabels
        /\ arg.current_status = "closed" => ret = "closed"

\* a closed row with no outreach and an old last action is classified closed
C1_Witness ==
    /\ op = "application_state"
    /\ arg.current_status = "closed"
    /\ arg.total_outreach_count = 0
    /\ arg.days_since_last_action = Some(MaxDays)
    /\ ret = "closed"

\* C2: channel_signal_state returns no_signal exactly when the response count
\* is 0, sets no_response_flag exactly then, and returns stable_signal only with
\* at least 3 responses and at least MIN_CHANNEL_SAMPLE_SIZE outreach events.
C2_ChannelSignalState ==
    op = "channel_signal_state" =>
        /\ ret[1] = "no_signal" <=> arg.response_count_by_channel = 0
        /\ ret[2].no_response_flag <=> arg.response_count_by_channel = 0
        /\ ret[1] = "stable_signal" =>
            /\ arg.response_count_by_channel >= 3
            /\ arg.outreach_count_by_channel >= MIN_CHANNEL_SAMPLE_SIZE

\* a channel with 4 responses and only 4 outreach events is not stable
C2_Witness ==
    /\ op = "channel_signal_state"
    /\ arg.response_count_by_channel = 4
    /\ arg.outreach_count_by_channel = 4
    /\ ret[1] = "insufficient_data"
    /\ ~ret[2].no_response_flag

\* C3: in every store state reached by add_application, add_outreach,
\* add_response and add_customization, every row of application_metrics_view
\* with has_no_follow_up set has total_outreach_count >= 1, and no row has both
\* has_no_follow_up and has_zero_outreach.
C3_NoFollowUpNeedsOutreach ==
    \A i \in DOMAIN application_metrics_view :
        LET row == application_metrics_view[i]
        IN  /\ row.has_no_follow_up => row.total_outreach_count >= 1
            /\ ~(row.has_no_follow_up /\ row.has_zero_outreach)

\* the pass has read a store in which one application has outreach without a
\* follow-up and another has no outreach at all
C3_Witness ==
    /\ op = "full_pass"
    /\ Len(ret.application_rows) = 2
    /\ ret.application_rows[1].has_no_follow_up
    /\ ret.application_rows[1].total_outreach_count = 2
    /\ ~ret.application_rows[2].has_no_follow_up
    /\ ret.application_rows[2].has_zero_outreach
    /\ ret.application_rows[2].any_customization
    /\ application_metrics_view[1].has_no_follow_up

HighIdleSentence == "A sizable portion of applications have not been touched recently."

\* C4: for a portfolio row whose pattern is stalled, whatever flags are set,
\* neither describe_portfolio nor the bundle's portfolio section contains the
\* high-idle secondary sentence.
C4_StalledSuppressesHighIdle ==
    /\ (op = "describe_portfolio" /\ arg.portfolio_pattern = "stalled")
            => HighIdleSentence \notin Range(ret)
    /\ (op = "assemble_insight_bundle" /\ arg.portfolio_row.portfolio_pattern = "stalled")
            => HighIdleSentence \notin Range(ret.portfolio)

\* a stalled row with only the high-idle flag set is described by the primary
\* sentence alone
C4_Witness ==
    /\ op = "describe_portfolio"
    /\ arg.portfolio_pattern = "stalled"
    /\ arg.high_idle_portfolio_flag
    /\ ~arg.channel_dependency_flag
    /\ ~arg.low_follow_up_portfolio_flag
    /\ ~arg.low_signal_environment_flag
    /\ ret = <<"Earlier activity occurred, but many applications have since become inactive.">>

\* C5: every bundle has at most 3 portfolio sentences and at most 5 application
\* entries, each with 1 or 2 sentences, and every channel entry has exactly 1
\* sentence.
C5_BundleCaps ==
    op = "assemble_insight_bundle" =>
        /\ Len(ret.portfolio) <= 3
        /\ Len(ret.applications) <= 5
        /\ \A i \in DOMAIN ret.applications :
            Len(ret.applications[i].sentences) \in 1 .. 2
        /\ \A k \in DOMAIN ret.channels :
            Len(ret.channels[k].sentences) = 1

\* six active applications with both flags set: five are shown, with two
\* sentences each
C5_Witness ==
    /\ op = "assemble_insight_bundle"
    /\ Len(arg.application_rows) = 6
    /\ \A i \in DOMAIN arg.application_rows :
        arg.application_rows[i].application_state = "active"
    /\ Len(ret.applications) = 5
    /\ \A i \in DOMAIN ret.applications : Len(ret.applications[i].sentences) = 2

\* the names of the channel rows, in order
ChannelNamesOf(rows) == [k \in DOMAIN rows |-> rows[k].channel_name]

HasCounts(r, o, n) ==
    /\ "outreach_count_by_channel" \in DOMAIN r
    /\ r.outreach_count_by_channel = o
    /\ r.response_count_by_channel = n

\* C9: the bundle's channels section holds no channel whose state is no_signal
\* or insufficient_data and, when include_channels is true, every input channel
\* whose state is emerging_signal or stable_signal, in input order; a channel
\* with 10 outreach events and 4 responses is stable_signal and shown, one with 2
\* outreach events and no response is no_signal and not shown.
C9_ChannelFilter ==
    op = "assemble_insight_bundle" =>
        LET rows == arg.channel_rows
            Weak(r) == r.channel_signal_state \in {"no_signal", "insufficient_data"}
            Strong(r) == r.channel_signal_state \in {"emerging_signal", "stable_signal"}
            shown == Range(ChannelNamesOf(ret.channels))
        IN  /\ \A k \in DOMAIN rows : Weak(rows[k]) => rows[k].channel_name \notin shown
            /\ arg.include_channels =>
                ChannelNamesOf(ret.channels) = ChannelNamesOf(SelectSeq(rows, Strong))
            /\ \A k \in DOMAIN rows :
                /\ HasCounts(rows[k], 10, 4) =>
                    /\ rows[k].channel_signal_state = "stable_signal"
                    /\ arg.include_channels => rows[k].channel_name \in shown
                /\ HasCounts(rows[k], 2, 0) =>
                    /\ rows[k].channel_signal_state = "no_signal"
                    /\ rows[k].channel_name \notin shown

\* a no_signal channel (2 / 0) ahead of a stable one (10 / 4): only the second
\* is shown
C9_Witness ==
    /\ op = "assemble_insight_bundle"
    /\ arg.include_channels
    /\ Len(arg.channel_rows) = 2
    /\ HasCounts(arg.channel_rows[1], 2, 0)
    /\ HasCounts(arg.channel_rows[2], 10, 4)
    /\ ChannelNamesOf(ret.channels) = <<"referral">>

\* C10: when at least one input application row is not closed, no closed
\* application appears in the bundle's applications section; closed applications
\* appear only when every input row is closed.
C10_ClosedNeverMixed ==
    op = "assemble_insight_bundle" =>
        LET rows == arg.application_rows
            closed == {rows[i].application_id : i \in
                          {j \in DOMAIN rows : rows[j].application_state = "closed"}}
            open_ == {rows[i].application_id : i \in
                          {j \in DOMAIN rows : rows[j].application_state # "closed"}}
            shown == {ret.applications[i].application_id : i \in DOMAIN ret.applications}
        IN  /\ open_ # {} => shown \cap closed = {}
            /\ shown \cap closed # {} => open_ = {}

\* a closed application ahead of an active one: only the active one is shown
C10_Witness ==
    /\ op = "assemble_insight_bundle"
    /\ Len(arg.application_rows) = 2
    /\ arg.application_rows[1].application_state = "closed"
    /\ arg.application_rows[2].application_state = "active"
    /\ Len(ret.applications) = 1
    /\ ret.applications[1].application_id = 2

\* closed applications are shown when every application is closed
C10_AllClosedShown ==
    /\ op = "assemble_insight_bundle"
    /\ Len(arg.application_rows) = 2
    /\ \A i \in DOMAIN arg.application_rows :
        arg.application_rows[i].application_state = "closed"
    /\ Len(ret.applications) = 2

UnengagedBase == "This application has been submitted, but no outreach has been logged yet."

EngagedIdleBase ==
    "Outreach has occurred, but there has been no recent activity on this application."

RespondedSentence == "A response has been received for this application."

NoFollowUpSentence == "No follow-up has been logged after initial outreach."

\* the sentence lists of the bundle's entries for one application
NarrativesOf(bundle, application_id) ==
    {bundle.applications[k].sentences : k \in
        {j \in DOMAIN bundle.applications :
            bundle.applications[j].application_id = application_id}}

Responded(application_id) ==
    \E k \in DOMAIN response_events : response_events[k].application_id = application_id

NoFollowUpLogged(application_id) ==
    \A k \in DOMAIN outreach_events :
        outreach_events[k].application_id = application_id
            => outreach_events[k].outreach_type # "follow_up"

\* C6: two full passes over an unchanged event set return identical metrics,
\* states and bundles; stated for the bundle, the last of the three, which
\* differs only when the states or the metrics do.
C6_Idempotent ==
    [][(op = "full_pass" /\ op' = "full_pass") => ret'.bundle = ret.bundle]_vars

\* C7 as claimed: an application with no outreach that is not closed is
\* unengaged and its narrative in the pass is the unengaged sentence alone,
\* whatever else is logged for it.
C7_Original ==
    op = "full_pass" =>
        \A i \in DOMAIN ret.application_rows :
            LET r == ret.application_rows[i]
            IN  (r.total_outreach_count = 0 /\ r.current_status # "closed") =>
                    /\ r.application_state = "unengaged"
                    /\ NarrativesOf(ret.bundle, r.application_id) = {<<UnengagedBase>>}

\* C7: an application with no outreach that is not closed is unengaged; its
\* narrative in the pass is the unengaged sentence alone when no response is
\* logged for it, and the unengaged sentence followed by the response sentence
\* when one is.
C7_UnengagedNarrative ==
    op = "full_pass" =>
        \A i \in DOMAIN ret.application_rows :
            LET r == ret.application_rows[i]
            IN  (r.total_outreach_count = 0 /\ r.current_status # "closed") =>
                    /\ r.application_state = "unengaged"
                    /\ NarrativesOf(ret.bundle, r.application_id) =
                        {IF Responded(r.application_id)
                         THEN <<UnengagedBase, RespondedSentence>>
                         ELSE <<UnengagedBase>>}

\* the pass has described an application with a response and a customization
\* and no outreach, next to one with neither
C7_Witness ==
    /\ op = "full_pass"
    /\ Len(ret.application_rows) = 2
    /\ ret.application_rows[1].total_outreach_count = 0
    /\ ret.application_rows[1].responded_flag
    /\ ret.application_rows[1].any_customization
    /\ ret.application_rows[1].application_state = "unengaged"
    /\ NarrativesOf(ret.bundle, 1) = {<<UnengagedBase, RespondedSentence>>}
    /\ ret.application_rows[2].total_outreach_count = 0
    /\ NarrativesOf(ret.bundle, 2) = {<<UnengagedBase>>}

\* the pass has just run: its result is that of the store and clock as they are
PassDone == op = "full_pass" /\ ret = full_pass

\* the whole days since the application's latest event
DaysOld(application_id) == timedelta_days(now, latest_timestamp(application_id)[1])

\* C8 as claimed: a non-closed application with outreach, no follow_up outreach
\* and a latest event more than IDLE_DAYS_THRESHOLD days old, in the whole days
\* the code counts, is engaged_idle, has has_no_follow_up set, and its narrative
\* holds the no-follow-up sentence.
C8_Original ==
    PassDone =>
    \A i \in DOMAIN ret.application_rows :
        LET r == ret.application_rows[i]
        IN  (/\ r.current_status # "closed"
             /\ r.total_outreach_count >= 1
             /\ NoFollowUpLogged(r.application_id)
             /\ DaysOld(r.application_id) > IDLE_DAYS_THRESHOLD) =>
                /\ r.application_state = "engaged_idle"
                /\ r.has_no_follow_up
                /\ \E n \in NarrativesOf(ret.bundle, r.application_id) :
                        NoFollowUpSentence \in Range(n)

\* C8: a non-closed application with outreach, no follow_up outreach and a
\* latest event more than IDLE_DAYS_THRESHOLD whole days old is engaged_idle and
\* has has_no_follow_up set; its narrative is the engaged_idle sentence followed
\* by the no-follow-up sentence when no response is logged for it, and by the
\* response sentence when one is.
C8_IdleNoFollowUp ==
    PassDone =>
    \A i \in DOMAIN ret.application_rows :
        LET r == ret.application_rows[i]
        IN  (/\ r.current_status # "closed"
             /\ r.total_outreach_count >= 1
             /\ NoFollowUpLogged(r.application_id)
             /\ DaysOld(r.application_id) > IDLE_DAYS_THRESHOLD) =>
                /\ r.application_state = "engaged_idle"
                /\ r.has_no_follow_up
                /\ NarrativesOf(ret.bundle, r.application_id) =
                    {IF Responded(r.application_id)
                     THEN <<EngagedIdleBase, RespondedSentence>>
                     ELSE <<EngagedIdleBase, NoFollowUpSentence>>}

\* the pass has described an application with two initial outreach events, the
\* last one 8 days old, and no response
C8_Witness ==
    /\ PassDone
    /\ Len(ret.application_rows) >= 1
    /\ ret.application_rows[1].total_outreach_count = 2
    /\ ret.application_rows[1].follow_up_count = 0
    /\ ~ret.application_rows[1].responded_flag
    /\ ret.application_rows[1].days_since_last_action = Some(8)
    /\ ret.application_rows[1].application_state = "engaged_idle"
    /\ ret.application_rows[1].has_no_follow_up
    /\ NarrativesOf(ret.bundle, 1) = {<<EngagedIdleBase, NoFollowUpSentence>>}

\* the row portfolio_metrics_view returns for an empty application set
EmptyPortfolioMetrics ==
    [applications_total |-> 0,
     applications_per_week |-> None,
     follow_up_rate |-> None,
     zero_outreach_rate |-> None,
     idle_application_rate |-> None,
     high_idle_portfolio |-> None,
     low_follow_up_portfolio |-> None]

\* C11: portfolio_pattern returns inactive, and raises nothing, whenever
\* applications_per_week is unknown or below 0.5, whatever the idle rate, the
\* follow-up rate and the high-idle flag are (unknown included); for an empty
\* application set portfolio_metrics_view returns applications_total 0 with every
\* other field unknown and the pattern attached by the view is inactive.
C11_InactiveShortCircuit ==
    /\ op = "portfolio_pattern" =>
        ((\/ arg.applications_per_week = None
          \/ RatioLess(arg.applications_per_week, Ratio(1, 2))) =>
            ret = "inactive")
    /\ (op = "portfolio_pattern_view" /\ applications = <<>>) =>
        /\ ret.metrics = EmptyPortfolioMetrics
        /\ ret.row.portfolio_pattern = "inactive"

\* portfolio_pattern was called with 0.2 applications per week, the other rates
\* unknown and the high-idle flag set
C11_Witness ==
    /\ op = "portfolio_pattern"
    /\ arg.applications_per_week = Ratio(1, 5)
    /\ arg.idle_application_rate = None
    /\ arg.follow_up_rate = None
    /\ arg.high_idle_portfolio = Some(TRUE)
    /\ ret = "inactive"

\* the high-idle flag is the one portfolio_metrics_view derives from the idle rate
DerivedHighIdle(row) ==
    /\ row.idle_application_rate # None
    /\ row.follow_up_rate # None
    /\ row.high_idle_portfolio =
           Some(RatioLess(Ratio(3, 10), row.idle_application_rate))

\* C12: for every portfolio row with applications_per_week >= 0.5 (the high-idle
\* flag being idle_application_rate > 0.30 as the aggregator derives it),
\* portfolio_pattern returns exactly one label: stalled iff applications_per_week
\* >= 1.0 and idle rate > 0.30; steady_engagement iff applications_per_week >= 1.0,
\* idle rate < 0.30 and follow-up rate >= 0.50; unstructured_bursting otherwise.
C12_PatternRules ==
    (/\ op = "portfolio_pattern"
     /\ arg.applications_per_week # None
     /\ RatioGeq(arg.applications_per_week, Ratio(1, 2))
     /\ DerivedHighIdle(arg)) =>
        LET busy == RatioGeq(arg.applications_per_week, Ratio(1, 1))
            stalled == busy /\ RatioLess(Ratio(3, 10), arg.idle_application_rate)
            steady == /\ busy
                      /\ RatioLess(arg.idle_application_rate, Ratio(3, 10))
                      /\ RatioGeq(arg.follow_up_rate, Ratio(1, 2))
        IN  /\ ret \in {"stalled", "steady_engagement", "unstructured_bursting"}
            /\ (ret = "stalled") <=> stalled
            /\ (ret = "steady_engagement") <=> steady
            /\ (ret = "unstructured_bursting") <=> (~stalled /\ ~steady)

\* portfolio_pattern was called with one application per week, an idle rate of
\* exactly 0.30 and every application followed up
C12_Witness ==
    /\ op = "portfolio_pattern"
    /\ arg.applications_per_week = Ratio(1, 1)
    /\ arg.idle_application_rate = Ratio(3, 10)
    /\ arg.follow_up_rate = Ratio(1, 1)
    /\ arg.high_idle_portfolio = Some(FALSE)
    /\ ret = "unstructured_bursting"

LowFollowUpSentence == "Follow-up activity has been limited across applications."

\* C13: in the full pass over a non-empty portfolio, whenever the aggregator
\* derives low_follow_up_portfolio = true the portfolio narrative of the bundle
\* holds the sentence "Follow-up activity has been limited across applications.";
\* and when high_idle_portfolio is true, the pattern is not stalled and fewer than
\* two higher-priority flags are set, it holds the high-idle sentence.
C13_PortfolioFlagSentences ==
    (PassDone /\ applications # <<>>) =>
        LET row == ret.portfolio_row
            higher == {f \in {"channel_dependency", "low_follow_up"} :
                          IF f = "channel_dependency"
                          THEN row.channel_dependency_flag
                          ELSE Truthy(row.low_follow_up_portfolio)}
        IN  /\ Truthy(row.low_follow_up_portfolio) =>
                LowFollowUpSentence \in Range(ret.bundle.portfolio)
            /\ (/\ Truthy(row.high_idle_portfolio)
                /\ row.portfolio_pattern # "stalled"
                /\ Cardinality(higher) < 2) =>
                    HighIdleSentence \in Range(ret.bundle.portfolio)

\* the fixed order of the portfolio flags, each with its sentence
FlagsInPriorityOrder ==
    << <<"channel_dependency_flag",
         "Most responses have come from a single outreach channel.">>,
       <<"low_follow_up_portfolio_flag", LowFollowUpSentence>>,
       <<"high_idle_portfolio_flag", HighIdleSentence>>,
       <<"low_signal_environment_flag",
         "Across channels, response signals remain limited.">> >>

\* the sentences of the first two flags of a row that count as set
FirstTwoSentences(row, Counts(_)) ==
    LET Set(item) == row[item[1]] /\ Counts(item[1])
        set_flags == SelectSeq(FlagsInPriorityOrder, Set)
    IN  [k \in DOMAIN Take(set_flags, 2) |-> set_flags[k][2]]

EveryFlagCounts(flag) == TRUE

\* C14 as stated: for every portfolio row with a known pattern, describe_portfolio
\* returns the pattern's primary sentence, then the sentences of the first (at
\* most two) set flags in the order channel_dependency_flag,
\* low_follow_up_portfolio_flag, high_idle_portfolio_flag,
\* low_signal_environment_flag, unset flags skipped, no sentence repeated.
C14_Original ==
    (op = "describe_portfolio" /\ arg.portfolio_pattern \in PortfolioPatternLabels) =>
        /\ ret = <<PORTFOLIO_PATTERN_TEMPLATES[arg.portfolio_pattern]>>
                     \o FirstTwoSentences(arg, EveryFlagCounts)
        /\ Cardinality(Range(ret)) = Len(ret)

\* C14, amended: the same, except that for the stalled pattern
\* high_idle_portfolio_flag counts as unset, so the next set flag takes its place.
C14_PrioritySentences ==
    (op = "describe_portfolio" /\ arg.portfolio_pattern \in PortfolioPatternLabels) =>
        LET Counts(flag) ==
                ~(arg.portfolio_pattern = "stalled" /\ flag = "high_idle_portfolio_flag")
        IN  /\ ret = <<PORTFOLIO_PATTERN_TEMPLATES[arg.portfolio_pattern]>>
                         \o FirstTwoSentences(arg, Counts)
            /\ Cardinality(Range(ret)) = Len(ret)

\* describe_portfolio was called on a stalled row with the low-follow-up,
\* high-idle and low-signal flags set: the low-signal sentence takes the place
\* of the suppressed high-idle one
C14_Witness ==
    /\ op = "describe_portfolio"
    /\ arg.portfolio_pattern = "stalled"
    /\ ~arg.channel_dependency_flag
    /\ arg.low_follow_up_portfolio_flag
    /\ arg.high_idle_portfolio_flag
    /\ arg.low_signal_environment_flag
    /\ ret = <<PORTFOLIO_PATTERN_TEMPLATES["stalled"], LowFollowUpSentence,
               "Across channels, response signals remain limited.">>

ExistingIds == {applications[i].application_id : i \in DOMAIN applications}

\* the step logs an outreach or a response event for an existing application
LogsEventForExisting ==
    /\ op' \in {"add_outreach", "add_response"}
    /\ <<outreach_events', response_events'>> # <<outreach_events, response_events>>
    /\ arg'[1] \in ExistingIds

\* the half-days since the latest timestamp of an application
HalfDaysOld(application_id) == now - latest_timestamp(application_id)[1]

\* C15: recency is measured from the latest of the creation time and all events.
\* Right after add_outreach or add_response is logged for an existing
\* application its days_since_last_action is 0 and is_idle_application is false;
\* an application with at least one outreach (never closed here) is active as
\* long as no more than IDLE_DAYS_THRESHOLD days have passed since its latest
\* event, and engaged_idle once its whole days exceed the threshold.
C15_RecencyFromLatestEvent ==
    /\ [][\A a \in AppIds :
            (LogsEventForExisting /\ arg'[1] = a) =>
                /\ application_metrics_row(a)'.days_since_last_action = Some(0)
                /\ ~application_metrics_row(a)'.is_idle_application
                /\ (total_outreach_count(a)' >= 1 =>
                        application_state(application_metrics_row(a))' = "active")]_vars
    /\ [](\A a \in ExistingIds :
            LET row == application_metrics_row(a)
            IN  (row.current_status # "closed" /\ row.total_outreach_count >= 1) =>
                    /\ HalfDaysOld(a) <= 2 * IDLE_DAYS_THRESHOLD =>
                           application_state(row) = "active"
                    /\ DaysOld(a) > IDLE_DAYS_THRESHOLD =>
                           application_state(row) = "engaged_idle")

\* a response was just logged, 8 days after the creation and the only outreach of
\* application 1: the application is active again with 0 days since its last action
C15_Witness ==
    /\ op = "add_response"
    /\ arg[1] = 1
    /\ now = 16
    /\ Len(applications) >= 1
    /\ applications[1].created_at = 0
    /\ \E i \in DOMAIN outreach_events :
          outreach_events[i].application_id = 1 /\ outreach_events[i].timestamp = 0
    /\ \A i \in DOMAIN outreach_events : outreach_events[i].timestamp = 0
    /\ \E i \in DOMAIN response_events :
          response_events[i].application_id = 1 /\ response_events[i].timestamp = 16
    /\ application_metrics_row(1).days_since_last_action = Some(0)
    /\ ~application_metrics_row(1).is_idle_application
    /\ application_state(application_metrics_row(1)) = "active"

\* the whole days between the earliest and the latest creation timestamp
CreationSpanDays ==
    LET created == {applications[i].created_at : i \in DOMAIN applications}
    IN  timedelta_days(SetMax(created), SetMin(created))

\* ceil(d / 7): the least k with 7 * k >= d
CeilWeeks(d) == CHOOSE k \in 0 .. d : 7 * k >= d /\ 7 * (k - 1) < d

\* C16: for every non-empty application set portfolio_metrics_view computes
\* weeks_active = max(1, ceil(D / 7)), D being the span in whole days between the
\* earliest and the latest creation timestamp, so weeks_active >= 1 (no division
\* by zero, also when every application is created on the same day) and
\* applications_per_week = applications_total / weeks_active.
C16_WeeksActive ==
    applications # <<>> =>
        LET weeks == IF CeilWeeks(CreationSpanDays) > 1
                     THEN CeilWeeks(CreationSpanDays) ELSE 1
            row == portfolio_metrics_view
        IN  /\ weeks >= 1
            /\ row.applications_total = Len(applications)
            /\ row.applications_per_week = Ratio(Len(applications), weeks)
            /\ row.applications_per_week[2] >= 1
            /\ (op = "full_pass" /\ ret = full_pass) =>
                   ret.portfolio_row.applications_per_week = row.applications_per_week

\* the pass ran over two applications created 8 days apart: 2 weeks, 2 / 2 per week
C16_Witness ==
    /\ PassDone
    /\ Len(applications) = 2
    /\ CreationSpanDays = 8
    /\ ret.portfolio_row.applications_per_week = Ratio(2, 2)

CustomizationRowsOf(application_id) ==
    {r \in application_customization : r.application_id = application_id}

\* C17: after any sequence of add_customization calls each application has at
\* most one customization record; right after a call the metrics row of that
\* application reports exactly the flags of the call (any_customization = resume
\* OR cover letter), calls for other applications and other writes leave the
\* reported flags as they were, and an application with no record reports all
\* three as false.
C17_CustomizationUpsert ==
    /\ [](\A a \in AppIds :
            /\ Cardinality(CustomizationRowsOf(a)) <= 1
            /\ CustomizationRowsOf(a) = {} =>
                   customization_flags(a) =
                       [resume_customized |-> FALSE, cover_letter_customized |-> FALSE,
                        any_customization |-> FALSE]
            /\ (op = "add_customization" /\ arg[1] = a) =>
                   customization_flags(a) =
                       [resume_customized |-> arg[2], cover_letter_customized |-> arg[3],
                        any_customization |-> arg[2] \/ arg[3]]
            /\ a \in ExistingIds =>
                   /\ application_metrics_row(a).resume_customized =
                          customization_flags(a).resume_customized
                   /\ application_metrics_row(a).cover_letter_customized =
                          customization_flags(a).cover_letter_customized
                   /\ application_metrics_row(a).any_customization =
                          customization_flags(a).any_customization)
    /\ [][\A a \in AppIds :
            ~(op' = "add_customization" /\ arg'[1] = a) =>
                customization_flags(a)' = customization_flags(a)]_vars

\* add_customization was just called for application 1 with the cover letter
\* only, application 2 having a record of its own: the row of application 1
\* reports the call
C17_Witness ==
    /\ op = "add_customization"
    /\ arg = <<1, FALSE, TRUE>>
    /\ 1 \in ExistingIds
    /\ CustomizationRowsOf(2) # {}
    /\ ~application_metrics_row(1).resume_customized
    /\ application_metrics_row(1).cover_letter_customized
    /\ application_metrics_row(1).any_customization

RECURSIVE SumOver(_, _)
\* the sum of f[i] for i in 1 .. n
SumOver(f, n) == IF n = 0 THEN 0 ELSE f[n] + SumOver(f, n - 1)

\* C18: after any sequence of write operations every outreach event and every
\* response event belongs to an existing application (its application_id is the
\* identifier of a row created by add_application), so the sum of
\* total_outreach_count over application_metrics_view equals the sum of
\* outreach_count_by_channel over channel_metrics_view.
C18_EventsBelongToApplications ==
    /\ \A i \in DOMAIN outreach_events : outreach_events[i].application_id \in ExistingIds
    /\ \A i \in DOMAIN response_events : response_events[i].application_id \in ExistingIds
    /\ SumOver([i \in DOMAIN application_metrics_view |->
                   application_metrics_view[i].total_outreach_count],
               Len(application_metrics_view))
         = SumOver([k \in DOMAIN channel_metrics_view |->
                       channel_metrics_view[k].outreach_count_by_channel],
                   Len(channel_metrics_view))

\* the response counts an application has at some instant: the counts over the
\* prefixes of the response log
ResponseCountsOf(application_id) ==
    {Cardinality({i \in 1 .. n : response_events[i].application_id = application_id}) :
        n \in 0 .. Len(response_events)}

\* C19: when add_outreach and add_response interleave with a running
\* application_metrics_view, every returned row is a snapshot of one instant:
\* total_action_count is total_outreach_count plus the response and status-change
\* counts of an instant, effort_score_raw equals total_action_count, follow-ups
\* are not more than the outreach events, and has_follow_up, has_zero_outreach
\* and has_no_follow_up agree with the row's counts.
C19_RowIsSnapshot ==
    op = "application_metrics_view" =>
        \A i \in DOMAIN ret :
            LET r == ret[i]
            IN  /\ \E rc \in ResponseCountsOf(r.application_id) :
                       r.total_action_count =
                           r.total_outreach_count + rc
                               + status_change_count(r.application_id)
                /\ r.effort_score_raw = r.total_action_count
                /\ r.follow_up_count <= r.total_outreach_count
                /\ r.has_follow_up = (r.follow_up_count > 0)
                /\ r.has_zero_outreach = (r.total_outreach_count = 0)
                /\ r.has_no_follow_up =
                       (r.total_outreach_count > 0 /\ r.follow_up_count = 0)

\* C20: no write operation appends a status-history entry, so in every state
\* reached from the empty store through add_application, add_outreach,
\* add_response and add_customization the status history is empty, every
\* application's current_status is "open", and no application is classified
\* closed, in the views and in the rows a full pass returns.
C20_NeverClosed ==
    /\ status_history = <<>>
    /\ \A a \in ExistingIds :
          /\ current_status(a) = "open"
          /\ application_metrics_row(a).current_status = "open"
          /\ application_state(application_metrics_row(a)) # "closed"
    /\ PassDone =>
          \A i \in DOMAIN ret.application_rows :
              /\ ret.application_rows[i].current_status = "open"
              /\ ret.application_rows[i].application_state # "closed"

\* a full pass over two applications, one with outreach and a response and one
\* with nothing logged: both open, active and unengaged
C20_Witness ==
    /\ PassDone
    /\ Len(ret.application_rows) = 2
    /\ ret.application_rows[1].total_outreach_count = 2
    /\ ret.application_rows[1].responded_flag
    /\ ret.application_rows[1].current_status = "open"
    /\ ret.application_rows[1].application_state = "active"
    /\ ret.application_rows[2].current_status = "open"
    /\ ret.application_rows[2].application_state = "unengaged"

NoResponseSentence == "No responses have been observed on this channel so far."

\* the row carries the state and the flags channel_signal_state gives its counts
ClassifiedByCounts(row) ==
    /\ {"outreach_count_by_channel", "response_count_by_channel"} \subseteq DOMAIN row
    /\ row.channel_signal_state = channel_signal_state(row)[1]
    /\ row.channel_flags = channel_signal_state(row)[2]

\* C21: for every channel row produced by channel_signal_state, describe_channel
\* returns exactly one sentence, the base sentence of the state; the
\* no_response_flag modifier is never appended, the flag being set only when the
\* state is no_signal, for which modifiers are suppressed.
C21_OneChannelSentence ==
    (op = "describe_channel" /\ ClassifiedByCounts(arg)) =>
        /\ arg.channel_flags.no_response_flag <=> arg.channel_signal_state = "no_signal"
        /\ ret = <<CHANNEL_SIGNAL_TEMPLATES[arg.channel_signal_state]>>
        /\ NoResponseSentence \notin Range(ret)

\* describe_channel was called on the row of a channel with 5 outreach events and
\* no response: no_signal, flag set, the base sentence alone
C21_Witness ==
    /\ op = "describe_channel"
    /\ ClassifiedByCounts(arg)
    /\ arg.outreach_count_by_channel = 5
    /\ arg.response_count_by_channel = 0
    /\ arg.channel_signal_state = "no_signal"
    /\ arg.channel_flags.no_response_flag
    /\ ret = <<"This channel has not produced any responses yet.">>

\* C22: events are append-only, so over every step of the event calls, with
\* time passing between them, each application's total_outreach_count,
\* follow_up_count and total_action_count never decrease, has_follow_up once
\* true stays true, and an application with at least one outreach is not
\* classified unengaged, then or ever after.
C22_CountsNeverDecrease ==
    [][\A a \in AppIds :
            /\ total_outreach_count(a)' >= total_outreach_count(a)
            /\ follow_up_count(a)' >= follow_up_count(a)
            /\ total_action_count(a)' >= total_action_count(a)
            /\ application_metrics_row(a).has_follow_up =>
                   application_metrics_row(a)'.has_follow_up
            /\ (a \in ExistingIds'
                    /\ (\/ total_outreach_count(a)' >= 1
                        \/ (/\ a \in ExistingIds
                            /\ application_state(application_metrics_row(a))
                                   # "unengaged"))) =>
                   application_state(application_metrics_row(a))' # "unengaged"]_vars

\* a follow-up was just logged for application 1 after an initial outreach and a
\* response: 2 outreach events, 3 actions, not unengaged
C22_Witness ==
    /\ op = "add_outreach"
    /\ arg = <<1, "email", "follow_up">>
    /\ 1 \in ExistingIds
    /\ application_metrics_row(1).total_outreach_count = 2
    /\ application_metrics_row(1).follow_up_count = 1
    /\ application_metrics_row(1).responded_flag
    /\ application_metrics_row(1).total_action_count = 3
    /\ application_metrics_row(1).has_follow_up
    /\ application_state(application_metrics_row(1)) = "active"
====
